---------------------------- MODULE Spec2Model ----------------------------
(***************************************************************************)
(* A model of photo_renamer.py: the EXIF date extractor (get_exif_date),   *)
(* the filename formatter (format_new_filename), the single-file           *)
(* orchestrator (rename_photo) and the directory driver (rename_directory).*)
(*                                                                         *)
(* Strings are sequences of one-character strings, paths are sequences of  *)
(* path components (pathlib's parts), and the filesystem is a function     *)
(* from the paths that exist to what is there: a directory, or a regular   *)
(* file with its content.  Only regular files and directories are          *)
(* modelled (no symbolic links, no permission faults).                     *)
(***************************************************************************)
EXTENDS Integers, Sequences, FiniteSets, TLC

\* Python's None where a datetime or a name is expected: a present value d
\* is the one-element sequence << d >> for a datetime, and the (non-empty)
\* string itself for a name.
None == << >>

(***************************************************************************)
(* Characters and strings                                                  *)
(***************************************************************************)

\* The characters the model's strings are made of, in code point order.
Alphabet ==
  << " ", "%", "-", ".", "0", "1", "2", "3", "4", "5", "6", "7", "8", "9", ":",
     "G", "H", "J", "M", "P", "S", "Y", "_",
     "a", "b", "d", "e", "f", "g", "h", "i", "j", "m", "n", "o", "p", "s", "t",
     "w", "x", "y" >>

\* The position of a character in code point order (Python's ord, up to
\* an order-preserving renumbering).
Ord(c) == CHOOSE i \in 1..Len(Alphabet) : Alphabet[i] = c

DigitChars == << "0", "1", "2", "3", "4", "5", "6", "7", "8", "9" >>

IsDigit(c) == \E i \in 1..10 : DigitChars[i] = c

DigitVal(c) == (CHOOSE i \in 1..10 : DigitChars[i] = c) - 1

\* int(): the value of a string of decimal digits.
RECURSIVE ToInt(_)
ToInt(s) ==
  IF s = << >> THEN 0
  ELSE 10 * ToInt(SubSeq(s, 1, Len(s) - 1)) + DigitVal(s[Len(s)])

\* str() of a natural number: its decimal digits, no padding.
RECURSIVE Str(_)
Str(n) ==
  IF n < 10 THEN << DigitChars[n + 1] >>
  ELSE Str(n \div 10) \o << DigitChars[(n % 10) + 1] >>

\* The zero-padded decimal rendering strftime gives a field of width w.
RECURSIVE Pad(_, _)
Pad(n, w) ==
  IF w = 0 THEN << >>
  ELSE Pad(n \div 10, w - 1) \o << DigitChars[(n % 10) + 1] >>

\* str.lower() on one character, then on a string.
LowerChar(c) ==
  CASE c = "G" -> "g"
    [] c = "H" -> "h"
    [] c = "J" -> "j"
    [] c = "M" -> "m"
    [] c = "P" -> "p"
    [] c = "S" -> "s"
    [] c = "Y" -> "y"
    [] OTHER -> c

Lower(s) == [i \in 1..Len(s) |-> LowerChar(s[i])]

\* Python's < on strings: the first differing character decides, and a
\* proper prefix is smaller.
RECURSIVE StrLess(_, _)
StrLess(a, b) ==
  IF b = << >> THEN FALSE
  ELSE IF a = << >> THEN TRUE
  ELSE IF a[1] # b[1] THEN Ord(a[1]) < Ord(b[1])
  ELSE StrLess(Tail(a), Tail(b))

\* str.rfind("."): the last position of a dot, 0 when there is none
\* (positions count from 1 here, so Python's -1 is 0 and its i is i + 1).
RFindDot(s) ==
  LET dots == {i \in 1..Len(s) : s[i] = "."}
  IN  IF dots = {} THEN 0 ELSE CHOOSE i \in dots : \A j \in dots : j <= i

(***************************************************************************)
(* datetime: strptime with "%Y:%m:%d %H:%M:%S" and strftime                *)
(***************************************************************************)

IsLeap(y) == (y % 4 = 0 /\ y % 100 # 0) \/ y % 400 = 0

DaysInMonth(y, m) ==
  IF m = 2 THEN (IF IsLeap(y) THEN 29 ELSE 28)
  ELSE IF m \in {4, 6, 9, 11} THEN 30 ELSE 31

AllDigits(s) == \A i \in 1..Len(s) : IsDigit(s[i])

\* The text of s from position i (1-based) of length n, << >> when it
\* does not fit.
Tok(s, i, n) == IF i >= 1 /\ i + n - 1 <= Len(s) THEN SubSeq(s, i, i + n - 1) ELSE << >>

\* One numeric field of the format at position i: the regular expression
\* strptime builds tries two digits, then one; the literal that follows
\* the field (or the end of the string) decides which one matches.  The
\* result is the field's length (0: no match).  lo..hi are the values the
\* expression of the directive admits, lo1 the least one-digit value.
FieldLen(s, i, lo, hi, lo1, follow) ==
  LET two == Tok(s, i, 2)
      one == Tok(s, i, 1)
      Next1(n) == IF follow = "" THEN i + n = Len(s) + 1
                  ELSE Tok(s, i + n, 1) = << follow >>
  IN  IF two # << >> /\ AllDigits(two) /\ ToInt(two) >= lo /\ ToInt(two) <= hi
         /\ Next1(2)
      THEN 2
      ELSE IF one # << >> /\ AllDigits(one) /\ ToInt(one) >= lo1 /\ Next1(1)
      THEN 1
      ELSE 0

\* The run of whitespace at position i (the format's blank matches \s+).
RECURSIVE Blanks(_, _)
Blanks(s, i) == IF Tok(s, i, 1) = << " " >> THEN 1 + Blanks(s, i + 1) ELSE 0

\* datetime(...): the value, or None where a field is out of datetime's
\* range (ValueError): year 0, a day the month does not have, second 60
\* or 61.
MakeDatetime(v) ==
  IF v[1] >= 1 /\ v[3] <= DaysInMonth(v[1], v[2]) /\ v[6] <= 59
  THEN << [year |-> v[1], month |-> v[2], day |-> v[3],
           hour |-> v[4], minute |-> v[5], second |-> v[6]] >>
  ELSE None

\* %S, which must end the string (else "unconverted data remains").
ParseSecond(s, i, v) ==
  LET n == FieldLen(s, i, 0, 61, 0, "")
  IN  IF n = 0 THEN None ELSE MakeDatetime(Append(v, ToInt(Tok(s, i, n))))

\* %M and the colon after it.
ParseMinute(s, i, v) ==
  LET n == FieldLen(s, i, 0, 59, 0, ":")
  IN  IF n = 0 THEN None ELSE ParseSecond(s, i + n + 1, Append(v, ToInt(Tok(s, i, n))))

\* %H and the colon after it.
ParseHour(s, i, v) ==
  LET n == FieldLen(s, i, 0, 23, 0, ":")
  IN  IF n = 0 THEN None ELSE ParseMinute(s, i + n + 1, Append(v, ToInt(Tok(s, i, n))))

\* The blank of the format: one or more whitespace characters.
ParseBlank(s, i, v) ==
  LET n == Blanks(s, i)
  IN  IF n = 0 THEN None ELSE ParseHour(s, i + n, v)

\* %d: two digits, one digit, or a blank and one digit.
ParseDay(s, i, v) ==
  LET n == FieldLen(s, i, 1, 31, 1, " ")
      padded == Tok(s, i, 1) = << " " >> /\ FieldLen(s, i + 1, 1, 9, 1, " ") = 1
  IN  IF n > 0 THEN ParseBlank(s, i + n, Append(v, ToInt(Tok(s, i, n))))
      ELSE IF padded THEN ParseBlank(s, i + 2, Append(v, DigitVal(s[i + 1])))
      ELSE None

\* %m and the colon after it.
ParseMonth(s, i, v) ==
  LET n == FieldLen(s, i, 1, 12, 1, ":")
  IN  IF n = 0 THEN None ELSE ParseDay(s, i + n + 1, Append(v, ToInt(Tok(s, i, n))))

\* datetime.strptime(date_string, "%Y:%m:%d %H:%M:%S"): the datetime, or
\* None where Python raises ValueError (no match, unconverted data, or a
\* field out of datetime's range).  %Y is four digits.
Strptime(s) ==
  LET y == Tok(s, 1, 4)
  IN  IF Len(y) = 4 /\ AllDigits(y) /\ Tok(s, 5, 1) = << ":" >>
      THEN ParseMonth(s, 6, << ToInt(y) >>)
      ELSE None

\* datetime.strftime(format_string): each directive replaced by its
\* zero-padded field, every other character copied.
RECURSIVE Strftime(_, _)
Strftime(d, f) ==
  IF f = << >> THEN << >>
  ELSE IF f[1] = "%" /\ Len(f) >= 2
  THEN (CASE f[2] = "Y" -> Pad(d.year, 4)
          [] f[2] = "m" -> Pad(d.month, 2)
          [] f[2] = "d" -> Pad(d.day, 2)
          [] f[2] = "H" -> Pad(d.hour, 2)
          [] f[2] = "M" -> Pad(d.minute, 2)
          [] f[2] = "S" -> Pad(d.second, 2)
          [] OTHER -> << f[1], f[2] >>)
       \o Strftime(d, SubSeq(f, 3, Len(f)))
  ELSE << f[1] >> \o Strftime(d, Tail(f))

(***************************************************************************)
(* pathlib: a path is the sequence of its components                       *)
(***************************************************************************)

\* Path.name, Path.parent and the / operator.
Name(p) == p[Len(p)]

Parent(p) == SubSeq(p, 1, Len(p) - 1)

Join(dir, name) == Append(dir, name)

\* Path.suffix: the text from the last dot of the name, when that dot is
\* neither the first nor the last character; "" otherwise.
Suffix(p) ==
  LET n == Name(p)
      i == RFindDot(n)
  IN  IF 1 < i /\ i < Len(n) THEN SubSeq(n, i, Len(n)) ELSE << >>

\* Path.stem: the name without its suffix.
Stem(p) ==
  LET n == Name(p)
      i == RFindDot(n)
  IN  IF 1 < i /\ i < Len(n) THEN SubSeq(n, 1, i - 1) ELSE n

\* Path.__lt__: the parts compared as lists of strings.
RECURSIVE PathLess(_, _)
PathLess(p, q) ==
  IF q = << >> THEN FALSE
  ELSE IF p = << >> THEN TRUE
  ELSE IF p[1] # q[1] THEN StrLess(p[1], q[1])
  ELSE PathLess(Tail(p), Tail(q))

\* sorted() of a set of paths.
RECURSIVE Sorted(_)
Sorted(S) ==
  IF S = {} THEN << >>
  ELSE LET least == CHOOSE p \in S : \A q \in S \ {p} : PathLess(p, q)
       IN  << least >> \o Sorted(S \ {least})

\* Whether p is q or lies under q.
IsPrefix(q, p) == Len(q) <= Len(p) /\ SubSeq(p, 1, Len(q)) = q

(***************************************************************************)
(* The filesystem: os, pathlib and shutil on it                            *)
(***************************************************************************)

DirEntry == [kind |-> "dir", content |-> ""]

FileEntry(c) == [kind |-> "file", content |-> c]

\* Path.exists(), Path.is_file(), Path.is_dir().  The empty path is the
\* working directory, which always exists.
Exists(fs, p) == p = << >> \/ p \in DOMAIN fs

IsFile(fs, p) == p \in DOMAIN fs /\ fs[p].kind = "file"

IsDir(fs, p) == p = << >> \/ (p \in DOMAIN fs /\ fs[p].kind = "dir")

\* The filesystem with entry e at path p (added or replaced).
Put(fs, p, e) == [q \in DOMAIN fs \cup {p} |-> IF q = p THEN e ELSE fs[q]]

\* The filesystem without path p.
Remove(fs, p) == [q \in DOMAIN fs \ {p} |-> fs[q]]

\* Path.mkdir(parents=True, exist_ok=True).  ok is FALSE where it raises:
\* the path exists and is no directory (FileExistsError), or an ancestor
\* is a regular file (NotADirectoryError).
RECURSIVE Mkdir(_, _)
Mkdir(fs, p) ==
  IF Exists(fs, p) THEN [ok |-> IsDir(fs, p), fs |-> fs]
  ELSE IF IsDir(fs, Parent(p)) THEN [ok |-> TRUE, fs |-> Put(fs, p, DirEntry)]
  ELSE IF Exists(fs, Parent(p)) THEN [ok |-> FALSE, fs |-> fs]
  ELSE LET up == Mkdir(fs, Parent(p))
       IN  IF up.ok THEN [ok |-> TRUE, fs |-> Put(up.fs, p, DirEntry)]
           ELSE [ok |-> FALSE, fs |-> fs]

\* Path.rename(target) on a regular file (os.rename): a no-op onto itself,
\* an error onto a directory or into a missing directory, and otherwise
\* the target is created or replaced.
Rename(fs, src, dst) ==
  IF ~Exists(fs, src) \/ ~IsDir(fs, Parent(dst)) \/ (dst # src /\ IsDir(fs, dst))
  THEN [ok |-> FALSE, fs |-> fs]
  ELSE IF dst = src THEN [ok |-> TRUE, fs |-> fs]
  ELSE [ok |-> TRUE, fs |-> Put(Remove(fs, src), dst, fs[src])]

\* shutil.copy2(src, dst): into dst when dst is a directory; SameFileError
\* when source and destination are the same file; otherwise the
\* destination is created or replaced with the source's content.
Copy2(fs, src, dst) ==
  LET to == IF IsDir(fs, dst) THEN Join(dst, Name(src)) ELSE dst
  IN  IF ~IsFile(fs, src) \/ to = src \/ ~IsDir(fs, Parent(to)) \/ IsDir(fs, to)
      THEN [ok |-> FALSE, fs |-> fs]
      ELSE [ok |-> TRUE, fs |-> Put(fs, to, FileEntry(fs[src].content))]

(***************************************************************************)
(* Images and their EXIF data                                              *)
(***************************************************************************)

\* PIL.ExifTags.TAGS, the part of it that matters here: numeric tag to name.
TAGS ==
  (271 :> "Make") @@ (306 :> "DateTime") @@ (36867 :> "DateTimeOriginal")
  @@ (36868 :> "DateTimeDigitized")

\* A faulty variant of date_tags: DateTimeOriginal is tried first.
date_tags_original_first == << "DateTimeOriginal", "DateTime", "DateTimeDigitized" >>

\* date_tags, in the order they are tried.
date_tags == << "DateTime", "DateTimeOriginal", "DateTimeDigitized" >>

\* What Image.open gives for a file: opens is FALSE when PIL raises (not an
\* image), has_exif is FALSE when _getexif() is None, exif_data maps
\* numeric tags to values.
Image(opens, has_exif, exif_data) ==
  [opens |-> opens, has_exif |-> has_exif, exif_data |-> exif_data]

\* get_exif_date: the parsed value of the first date tag present, None when
\* there is none or anything raised.
get_exif_date(image) ==
  IF ~image.opens THEN None
  ELSE IF ~image.has_exif THEN None
  ELSE LET known == {k \in DOMAIN image.exif_data : k \in DOMAIN TAGS}
           exif_dict == [n \in {TAGS[k] : k \in known} |->
                           image.exif_data[CHOOSE k \in known : TAGS[k] = n]]
           present == {i \in 1..Len(date_tags) : date_tags[i] \in DOMAIN exif_dict}
       IN  IF present = {} THEN None
           ELSE LET first == CHOOSE i \in present : \A j \in present : i <= j
                IN  Strptime(exif_dict[date_tags[first]])

\* format_new_filename: the formatted date followed by the original suffix.
format_new_filename(date_obj, original_path, format_string) ==
  LET ext == Suffix(original_path)
  IN  Strftime(date_obj, format_string) \o ext

(***************************************************************************)
(* rename_photo                                                            *)
(***************************************************************************)

\* EXIF values carried by the files of the model.
DateA == << "2", "0", "2", "3", ":", "0", "6", ":", "1", "5", " ", "1", "4", ":", "3", "0", ":", "0", "0" >>

DateB == << "2", "0", "2", "3", ":", "0", "6", ":", "2", "0", " ", "0", "8", ":", "0", "5", ":", "0", "9" >>

DateDashed == << "2", "0", "2", "3", "-", "0", "6", "-", "1", "5", " ", "1", "4", ":", "3", "0", ":", "0", "0" >>

\* The image inside a file, by the file's content: p1 carries
\* DateTimeOriginal only, p2 carries DateTime and DateTimeOriginal with
\* different dates, n1 carries a malformed DateTime before a well-formed
\* DateTimeOriginal.
ImageOf(content) ==
  CASE content = "p1" -> Image(TRUE, TRUE, (271 :> << "x" >>) @@ (36867 :> DateA))
    [] content = "p2" -> Image(TRUE, TRUE, (306 :> DateB) @@ (36867 :> DateA))
    [] content = "n1" -> Image(TRUE, TRUE, (306 :> DateDashed) @@ (36867 :> DateA))
    [] OTHER -> Image(FALSE, FALSE, << >>)

\* The tuple rename_photo returns, with the filesystem it leaves; raised is
\* TRUE when an exception left rename_photo instead.
Result(raised, success, original, new_name, message, fs) ==
  [raised |-> raised, success |-> success, original |-> original,
   new_name |-> new_name, message |-> message, fs |-> fs]

\* The while loop of the duplicate handling: the first path
\* <base_name>_<counter><ext> that does not exist, counting up.
RECURSIVE NextFree(_, _, _, _, _)
NextFree(fs, output_path, base_name, ext, counter) ==
  IF Exists(fs, output_path)
  THEN NextFree(fs,
                Join(Parent(output_path), base_name \o << "_" >> \o Str(counter) \o ext),
                base_name, ext, counter + 1)
  ELSE output_path

\* A faulty variant of HandleDuplicate: the destination is used as it is.
HandleDuplicateNever(fs, output_path, image_path) == output_path

\* A faulty variant of HandleDuplicate: the source itself counts as a duplicate.
HandleDuplicateSelf(fs, output_path, image_path) ==
  IF Exists(fs, output_path)
  THEN NextFree(fs, output_path, Stem(output_path), Suffix(output_path), 1)
  ELSE output_path

\* "Handle duplicate filenames": the path the file goes to.
HandleDuplicate(fs, output_path, image_path) ==
  IF Exists(fs, output_path) /\ output_path # image_path
  THEN NextFree(fs, output_path, Stem(output_path), Suffix(output_path), 1)
  ELSE output_path

\* A faulty variant of Transfer: copy mode moves the file.
TransferAlwaysMoves(fs, image_path, output_path, copy) == Rename(fs, image_path, output_path)

\* "Rename or copy the file": shutil.copy2 or Path.rename.
Transfer(fs, image_path, output_path, copy) ==
  IF copy THEN Copy2(fs, image_path, output_path)
  ELSE Rename(fs, image_path, output_path)

\* The checks rename_photo makes before it touches anything: the message
\* of the first one that fails, "" when all pass.
Precheck(fs, image_path) ==
  IF ~Exists(fs, image_path) THEN "File not found"
  ELSE IF ~IsFile(fs, image_path) THEN "Not a file"
  ELSE IF get_exif_date(ImageOf(fs[image_path].content)) = None THEN "No EXIF date found"
  ELSE ""

\* rename_photo from "Handle duplicate filenames" on: the destination is
\* settled, the file is moved or copied, and the outcome is reported.
Place(fs, image_path, output_path, new_filename, copy) ==
  LET final_path == HandleDuplicate(fs, output_path, image_path)
      final_name == IF Exists(fs, output_path) /\ output_path # image_path
                    THEN Name(final_path) ELSE new_filename
      moved == Transfer(fs, image_path, final_path, copy)
  IN  IF moved.ok
      THEN Result(FALSE, TRUE, Name(image_path), final_name,
                  IF copy THEN "Copied" ELSE "Renamed", moved.fs)
      ELSE Result(FALSE, FALSE, Name(image_path), final_name, "Error", moved.fs)

\* "Determine output path": the output directory, made when it is
\* missing, or the file's own directory.  An exception of mkdir leaves
\* rename_photo.
Locate(fs, image_path, output_dir, new_filename, copy) ==
  IF output_dir # None
  THEN LET made == Mkdir(fs, output_dir)
       IN  IF made.ok
           THEN Place(made.fs, image_path, Join(output_dir, new_filename), new_filename, copy)
           ELSE Result(TRUE, FALSE, Name(image_path), None, "raised", made.fs)
  ELSE Place(fs, image_path, Join(Parent(image_path), new_filename), new_filename, copy)

\* rename_photo from "Create new filename" on, for a file with a date.
RenameDated(fs, image_path, output_dir, format_string, copy) ==
  Locate(fs, image_path, output_dir,
         format_new_filename(get_exif_date(ImageOf(fs[image_path].content))[1],
                             image_path, format_string),
         copy)

\* A faulty variant of rename_photo: the output directory is made before the checks.
rename_photo_mkdir_first(fs, image_path, output_dir, format_string, copy) ==
  LET made == IF output_dir # None THEN Mkdir(fs, output_dir).fs ELSE fs
      failed == Precheck(made, image_path)
  IN  IF failed # ""
      THEN Result(FALSE, FALSE, Name(image_path), None, failed, made)
      ELSE RenameDated(made, image_path, output_dir, format_string, copy)

\* rename_photo(image_path, output_dir, format_string, copy) on filesystem fs.
rename_photo(fs, image_path, output_dir, format_string, copy) ==
  LET failed == Precheck(fs, image_path)
  IN  IF failed # ""
      THEN Result(FALSE, FALSE, Name(image_path), None, failed, fs)
      ELSE RenameDated(fs, image_path, output_dir, format_string, copy)

(***************************************************************************)
(* rename_directory                                                        *)
(***************************************************************************)

\* photo_extensions
photo_extensions ==
  { << ".", "j", "p", "g" >>, << ".", "j", "p", "e", "g" >>, << ".", "p", "n", "g" >>,
    << ".", "g", "i", "f" >>, << ".", "b", "m", "p" >>, << ".", "t", "i", "f", "f" >>,
    << ".", "w", "e", "b", "p" >> }

\* The files rglob('*') or iterdir() yield that pass the filter.
photo_files(fs, directory, recursive) ==
  {f \in DOMAIN fs :
     /\ IF recursive THEN IsPrefix(directory, f) /\ f # directory
        ELSE Parent(f) = directory
     /\ IsFile(fs, f)
     /\ Lower(Suffix(f)) \in photo_extensions}

\* The state of one rename_directory call: where it is (pc), the
\* filesystem, the sorted candidates and the position in them, the two
\* counters, the paths rename_photo was invoked on, and the lines printed.
NewRun(fs) ==
  [pc |-> "start", fs |-> fs, files |-> << >>, i |-> 0, successful |-> 0,
   failed |-> 0, invoked |-> << >>, printed |-> << >>]

\* rename_directory up to the loop: the directory check, the enumeration,
\* the header.
DirBegin(r, args) ==
  IF ~IsDir(r.fs, args.directory)
  THEN [r EXCEPT !.pc = "returned", !.printed = Append(@, "not a directory")]
  ELSE LET found == photo_files(r.fs, args.directory, args.recursive)
       IN  IF found = {}
           THEN [r EXCEPT !.pc = "returned", !.printed = Append(@, "no photo files found")]
           ELSE [r EXCEPT !.pc = "loop", !.files = Sorted(found), !.i = 1,
                          !.printed = Append(@, "found")]

\* A faulty variant of DirLoop: a dry run reports without renaming.
DirLoopDryRunSkips(r, args) ==
  LET image_path == r.files[r.i]
      res == rename_photo(r.fs, image_path, args.output_dir, args.format_string, args.copy)
      kept == IF args.dry_run THEN r.fs ELSE res.fs
  IN  IF res.raised
      THEN [r EXCEPT !.pc = "raised", !.fs = kept, !.invoked = Append(@, image_path)]
      ELSE [r EXCEPT !.fs = kept, !.i = @ + 1,
                     !.invoked = Append(@, image_path),
                     !.successful = IF res.success THEN @ + 1 ELSE @,
                     !.failed = IF res.success THEN @ ELSE @ + 1,
                     !.printed = Append(@, IF res.success THEN "ok" ELSE "failed")]

\* One iteration of the loop over sorted(photo_files).  An exception that
\* leaves rename_photo leaves rename_directory too.
DirLoop(r, args) ==
  LET image_path == r.files[r.i]
      res == rename_photo(r.fs, image_path, args.output_dir, args.format_string, args.copy)
  IN  IF res.raised
      THEN [r EXCEPT !.pc = "raised", !.fs = res.fs, !.invoked = Append(@, image_path)]
      ELSE [r EXCEPT !.fs = res.fs, !.i = @ + 1,
                     !.invoked = Append(@, image_path),
                     !.successful = IF res.success THEN @ + 1 ELSE @,
                     !.failed = IF res.success THEN @ ELSE @ + 1,
                     !.printed = Append(@, IF res.success THEN "ok" ELSE "failed")]

\* After the loop: the tally, and the label of a dry run.
DirEnd(r, args) ==
  [r EXCEPT !.pc = "done",
            !.printed = IF args.dry_run THEN @ \o << "results", "dry run" >>
                        ELSE Append(@, "results")]

(***************************************************************************)
(* The filesystems and configurations the model starts from                *)
(***************************************************************************)

\* At most this many regular files in the photo directory at the start.
MaxFiles == 2

\* At most this many rename_photo calls in a behaviour of Spec.
MaxCalls == 2

\* The default of format_string, and a pattern with a dot in it.
DefaultFormat == << "%", "Y", "%", "m", "%", "d", "_", "%", "H", "%", "M", "%", "S" >>

DottedFormat == << "%", "Y", ".", "%", "m" >>

Formats == {DefaultFormat, DottedFormat}

\* The photo directory, its subdirectory and the output directory.
PhotoDir == << << "d" >> >>

SubDir == << << "d" >>, << "s" >> >>

OutputDir == << << "o" >>, << "n" >> >>

\* The values of output_dir: none (in place), a directory of its own, and
\* the photo directory itself.
OutputDirs == {None, OutputDir, PhotoDir}

\* A path that never exists.
Missing == Join(PhotoDir, << "g", "o", "n", "e", ".", "j", "p", "g" >>)

\* The names a file of the photo directory may have at the start; the last
\* one is the name the default pattern gives a .jpg file dated DateA.
FlatPaths ==
  { Join(PhotoDir, << "a", ".", "j", "p", "g" >>),
    Join(PhotoDir, << "x", ".", "J", "P", "G" >>),
    Join(PhotoDir, << "p", "h", "o", "t", "o" >>),
    Join(PhotoDir, << "2", "0", "2", "3", "0", "6", "1", "5", "_", "1", "4", "3", "0", "0", "0", ".", "j", "p", "g" >>) }

TreePaths == FlatPaths \cup { Join(SubDir, << "a", ".", "j", "p", "g" >>) }

Contents == {"p1", "p2", "n1"}

\* What is at the output directory's path at the start: nothing, a regular
\* file in place of its parent, the directory, a regular file in its place.
OutAbsent == [q \in {} |-> DirEntry]

OutWorlds ==
  { OutAbsent,
    Parent(OutputDir) :> FileEntry("n1"),
    (Parent(OutputDir) :> DirEntry) @@ (OutputDir :> DirEntry),
    (Parent(OutputDir) :> DirEntry) @@ (OutputDir :> FileEntry("n1")) }

\* The filesystem with the files S (content c[f] in file f), the
\* directories they lie in, and out at the output directory.
World(S, c, out) ==
  LET dirs == {PhotoDir} \cup {Parent(f) : f \in S}
  IN  [f \in S |-> FileEntry(c[f])] @@ [q \in dirs |-> DirEntry] @@ out

Worlds(paths) ==
  UNION { {World(S, c, out) : c \in [S -> Contents], out \in OutWorlds} :
          S \in {T \in SUBSET paths : Cardinality(T) <= MaxFiles} }

\* The arguments of one invocation.  Without an output directory nothing
\* reads the output directory's path, so it starts absent.
Args(output_dir, format_string, copy, recursive, dry_run) ==
  [directory |-> PhotoDir, output_dir |-> output_dir, format_string |-> format_string,
   copy |-> copy, recursive |-> recursive, dry_run |-> dry_run]

Compatible(world, args) ==
  args.output_dir = None => \A q \in DOMAIN world : ~IsPrefix(Parent(OutputDir), q)

(***************************************************************************)
(* State                                                                   *)
(***************************************************************************)

VARIABLES
  cfg,      \* the arguments of the invocation
  fs,       \* Spec: the filesystem between rename_photo calls
  call,     \* Spec: the last rename_photo call: its path, the filesystem before, its result
  ncalls,   \* Spec: the number of calls made
  run,      \* SpecDir, SpecDry: the rename_directory call in progress
  pass,     \* SpecDir: 1 in the first run over the directory, 2 in the second
  before,   \* SpecDir: the filesystem when the current run began
  twin,     \* SpecDry: the same call with dry_run set
  image,    \* SpecExif: what Image.open returned
  date      \* SpecExif: what get_exif_date returned for it

vars == << cfg, fs, call, ncalls, run, pass, before, twin, image, date >>

NoCall == [done |-> FALSE, path |-> << >>, pre |-> OutAbsent,
           result |-> Result(FALSE, FALSE, << >>, None, "", OutAbsent)]

NoImage == Image(FALSE, FALSE, OutAbsent)

Idle == NewRun(OutAbsent)

(***************************************************************************)
(* Spec: rename_photo called on any path of any filesystem                 *)
(***************************************************************************)

Init ==
  /\ \E output_dir \in OutputDirs, format_string \in Formats, copy \in BOOLEAN :
        cfg = Args(output_dir, format_string, copy, FALSE, FALSE)
  /\ fs \in Worlds(FlatPaths)
  /\ Compatible(fs, cfg)
  /\ call = NoCall
  /\ ncalls = 0
  /\ run = Idle /\ twin = Idle /\ pass = 0 /\ before = OutAbsent
  /\ image = NoImage /\ date = << >>

\* main's single-file branch, or any other caller: rename_photo on a path.
CallRenamePhoto(image_path) ==
  /\ ncalls < MaxCalls
  /\ LET res == rename_photo(fs, image_path, cfg.output_dir, cfg.format_string, cfg.copy)
     IN  /\ fs' = res.fs
         /\ call' = [done |-> TRUE, path |-> image_path, pre |-> fs, result |-> res]
  /\ ncalls' = ncalls + 1
  /\ UNCHANGED << cfg, run, pass, before, twin, image, date >>

Next == \E image_path \in DOMAIN fs \cup {Missing} : CallRenamePhoto(image_path)

Spec == Init /\ [][Next]_vars

(***************************************************************************)
(* SpecDir: rename_directory run on the photo directory, then run again    *)
(***************************************************************************)

InitDir ==
  /\ \E output_dir \in OutputDirs, format_string \in Formats,
        copy \in BOOLEAN, recursive \in BOOLEAN :
        cfg = Args(output_dir, format_string, copy, recursive, FALSE)
  /\ before \in Worlds(TreePaths)
  /\ Compatible(before, cfg)
  /\ run = NewRun(before)
  /\ pass = 1
  /\ twin = Idle
  /\ fs = OutAbsent /\ call = NoCall /\ ncalls = 0
  /\ image = NoImage /\ date = << >>

Begin ==
  /\ run.pc = "start"
  /\ run' = DirBegin(run, cfg)
  /\ UNCHANGED << cfg, fs, call, ncalls, pass, before, twin, image, date >>

Loop ==
  /\ run.pc = "loop"
  /\ run.i <= Len(run.files)
  /\ run' = DirLoop(run, cfg)
  /\ UNCHANGED << cfg, fs, call, ncalls, pass, before, twin, image, date >>

End ==
  /\ run.pc = "loop"
  /\ run.i > Len(run.files)
  /\ run' = DirEnd(run, cfg)
  /\ UNCHANGED << cfg, fs, call, ncalls, pass, before, twin, image, date >>

\* The same command given again once the first run has printed its tally.
Again ==
  /\ run.pc = "done"
  /\ pass = 1
  /\ pass' = 2
  /\ before' = run.fs
  /\ run' = NewRun(run.fs)
  /\ UNCHANGED << cfg, fs, call, ncalls, twin, image, date >>

NextDir == Begin \/ Loop \/ End \/ Again

SpecDir == InitDir /\ [][NextDir]_vars

(***************************************************************************)
(* SpecDry: the same rename_directory call with and without --dry-run      *)
(***************************************************************************)

InitDry ==
  /\ \E output_dir \in OutputDirs, format_string \in Formats,
        copy \in BOOLEAN, recursive \in BOOLEAN :
        cfg = Args(output_dir, format_string, copy, recursive, FALSE)
  /\ before \in Worlds(TreePaths)
  /\ Compatible(before, cfg)
  /\ run = NewRun(before)
  /\ twin = NewRun(before)
  /\ pass = 1
  /\ fs = OutAbsent /\ call = NoCall /\ ncalls = 0
  /\ image = NoImage /\ date = << >>

DryArgs == [cfg EXCEPT !.dry_run = TRUE]

BothBegin ==
  /\ run.pc = "start"
  /\ run' = DirBegin(run, cfg)
  /\ twin' = DirBegin(twin, DryArgs)
  /\ UNCHANGED << cfg, fs, call, ncalls, pass, before, image, date >>

\* The two calls advance together; each takes the step its own state allows.
StepOf(r, args) ==
  IF r.pc = "loop" /\ r.i <= Len(r.files) THEN DirLoop(r, args)
  ELSE IF r.pc = "loop" THEN DirEnd(r, args)
  ELSE r

BothLoop ==
  /\ "loop" \in {run.pc, twin.pc}
  /\ run' = StepOf(run, cfg)
  /\ twin' = StepOf(twin, DryArgs)
  /\ UNCHANGED << cfg, fs, call, ncalls, pass, before, image, date >>

NextDry == BothBegin \/ BothLoop

SpecDry == InitDry /\ [][NextDry]_vars

(***************************************************************************)
(* SpecExif: get_exif_date on any image                                    *)
(***************************************************************************)

\* The values a tag may carry: two well-formed dates, the dashed date, a
\* date that no calendar has.
DateLeap == << "2", "0", "2", "4", ":", "0", "2", ":", "2", "9", " ", "2", "3", ":", "5", "9", ":", "5", "9" >>

DateNoSuchDay == << "2", "0", "2", "3", ":", "0", "2", ":", "3", "0", " ", "1", "0", ":", "0", "0", ":", "0", "0" >>

TagValues == {DateA, DateLeap, DateDashed, DateNoSuchDay}

\* The numeric tags an image may carry: the three date tags, a tag TAGS
\* knows that is no date, and a tag TAGS does not know.
TagIds == {306, 36867, 36868, 271, 59999}

InitExif ==
  /\ \E opens \in BOOLEAN, has_exif \in BOOLEAN, ids \in SUBSET TagIds :
       \E exif_data \in [ids -> TagValues] :
          /\ (~opens => ~has_exif /\ ids = {})
          /\ (~has_exif => ids = {})
          /\ image = Image(opens, has_exif, exif_data)
  /\ date = << >>
  /\ cfg = Args(None, DefaultFormat, FALSE, FALSE, FALSE)
  /\ fs = OutAbsent /\ call = NoCall /\ ncalls = 0
  /\ run = Idle /\ twin = Idle /\ pass = 0 /\ before = OutAbsent

\* date holds the results so far: none, then the one get_exif_date gave.
Extract ==
  /\ date = << >>
  /\ date' = << get_exif_date(image) >>
  /\ UNCHANGED << cfg, fs, call, ncalls, run, pass, before, twin, image >>

NextExif == Extract

SpecExif == InitExif /\ [][NextExif]_vars

(***************************************************************************)
(* Properties of rename_photo, stated of the last call (Spec)              *)
(***************************************************************************)

\* The date of the file the last call was made on (the call passed the
\* checks), the directory the file goes to, and the name before any
\* duplicate handling.
CallDate == get_exif_date(ImageOf(call.pre[call.path].content))[1]

CallDestDir == IF cfg.output_dir # None THEN cfg.output_dir ELSE Parent(call.path)

CallCandidate ==
  Join(CallDestDir, Strftime(CallDate, cfg.format_string) \o Suffix(call.path))

\* The last call passed the checks and did not raise.
CallPlaced == call.done /\ ~call.result.raised /\ Precheck(call.pre, call.path) = ""

\* The last call found a file or directory at the candidate path that is
\* not the source.
CallCollided ==
  CallPlaced /\ CallCandidate \in DOMAIN call.pre /\ CallCandidate # call.path

\* C1: every file that existed before a call at a path other than the
\* call's source is still there with the same content after it: no move or
\* copy replaces an existing file.
C1_NoOverwrite ==
  call.done =>
    \A q \in DOMAIN call.pre :
      (q # call.path /\ call.pre[q].kind = "file") =>
        (q \in DOMAIN fs /\ fs[q] = call.pre[q])

\* C1's case: the call succeeded although another file held the candidate name.
C1_Witness ==
  /\ CallCollided
  /\ call.result.success
  /\ IsFile(call.pre, CallCandidate)

\* The name the claim C2 expects: <formatted date>_<k><original extension>.
SuffixedName(k) ==
  Strftime(CallDate, cfg.format_string) \o << "_" >> \o Str(k) \o Suffix(call.path)

\* The smallest k >= 1 whose suffixed name is free in the destination directory.
SmallestFree ==
  CHOOSE k \in 1..(Cardinality(DOMAIN call.pre) + 1) :
    /\ Join(CallDestDir, SuffixedName(k)) \notin DOMAIN call.pre
    /\ \A j \in 1..(k - 1) : Join(CallDestDir, SuffixedName(j)) \in DOMAIN call.pre

\* C2: when the candidate path exists and is not the source, the name used
\* and reported is <formatted date>_<k><original extension> for the smallest
\* k >= 1 that is free.
C2_SuffixedName ==
  CallCollided =>
    /\ call.result.new_name = SuffixedName(SmallestFree)
    /\ call.result.success => IsFile(fs, Join(CallDestDir, SuffixedName(SmallestFree)))

\* The last call was made on a file whose path is its own target.
CallOnOwnTarget == CallPlaced /\ CallCandidate = call.path

\* C3 as claimed: a call on a file that already carries its target name
\* reports success and changes nothing, in move mode and in copy mode.
C3_Idempotent ==
  CallOnOwnTarget => (call.result.success /\ fs = call.pre)

\* C3 as amended: such a call changes nothing and reports the file's own
\* name; it reports success in move mode and a failure (shutil's
\* SameFileError) in copy mode.
C3_IdempotentMoveOnly ==
  CallOnOwnTarget =>
    /\ fs = call.pre
    /\ call.result.new_name = Name(call.path)
    /\ call.result.success <=> ~cfg.copy
    /\ call.result.message = (IF cfg.copy THEN "Error" ELSE "Renamed")

\* C3's case: a copy-mode call on a file that carries its target name.
C3_Witness == CallOnOwnTarget /\ cfg.copy /\ ~call.result.success

PreconditionFailures == {"File not found", "Not a file", "No EXIF date found"}

\* C5: a missing path, a path that is no regular file and a file without
\* an EXIF date are reported in that order, each as a failure that leaves
\* the filesystem exactly as it was (the output directory is not made).
C5_PreconditionFrame ==
  call.done =>
    /\ ~Exists(call.pre, call.path) => call.result.message = "File not found"
    /\ (Exists(call.pre, call.path) /\ ~IsFile(call.pre, call.path)) =>
          call.result.message = "Not a file"
    /\ (IsFile(call.pre, call.path)
        /\ get_exif_date(ImageOf(call.pre[call.path].content)) = None) =>
          call.result.message = "No EXIF date found"
    /\ call.result.message \in PreconditionFailures =>
          /\ fs = call.pre
          /\ ~call.result.success
          /\ ~call.result.raised
          /\ call.result.new_name = None

\* C5's case: a file without a date, with an output directory configured
\* that does not exist.
C5_Witness ==
  /\ call.done
  /\ call.result.message = "No EXIF date found"
  /\ cfg.output_dir = OutputDir
  /\ Parent(OutputDir) \notin DOMAIN call.pre
  /\ Parent(OutputDir) \notin DOMAIN fs

\* Where a successful call reports the file to be.
CallDest == Join(CallDestDir, call.result.new_name)

\* What C6 says of the source and the destination of a successful call:
\* the content is at <destination directory>/<reported name>; a copy leaves
\* the source as it was; a move takes it away unless it is the destination.
CallDelivered ==
  /\ IsFile(fs, CallDest)
  /\ fs[CallDest].content = call.pre[call.path].content
  /\ cfg.copy => (call.path \in DOMAIN fs /\ fs[call.path] = call.pre[call.path])
  /\ (~cfg.copy /\ CallDest # call.path) => call.path \notin DOMAIN fs

\* C6 as claimed: besides source and destination no path changes.
C6_OnlyOnePathChanges ==
  (call.done /\ call.result.success) =>
    /\ CallDelivered
    /\ \A q \in (DOMAIN fs \cup DOMAIN call.pre) \ {call.path, CallDest} :
         q \in DOMAIN fs /\ q \in DOMAIN call.pre /\ fs[q] = call.pre[q]

\* C6 as amended: besides source and destination every path that existed
\* is unchanged, and the only new paths are the output directory and its
\* missing ancestors, made as directories.
C6_OnlyOneFileChanges ==
  (call.done /\ call.result.success) =>
    /\ CallDelivered
    /\ \A q \in (DOMAIN fs \cup DOMAIN call.pre) \ {call.path, CallDest} :
         IF q \in DOMAIN call.pre
         THEN q \in DOMAIN fs /\ fs[q] = call.pre[q]
         ELSE cfg.output_dir # None /\ IsPrefix(q, cfg.output_dir) /\ fs[q] = DirEntry

\* C6's case: a successful copy into an output directory the call made.
C6_Witness ==
  /\ call.done
  /\ call.result.success
  /\ cfg.copy
  /\ cfg.output_dir = OutputDir
  /\ OutputDir \notin DOMAIN call.pre
  /\ IsDir(fs, OutputDir)

(***************************************************************************)
(* Properties of rename_directory (SpecDir, SpecDry)                       *)
(***************************************************************************)

\* C4: no exception leaves rename_photo during a directory run, so the run
\* goes on to the remaining candidates and the tally.
C4_NothingEscapes == run.pc # "raised"

\* C9: rename_photo is invoked exactly once on every candidate enumerated
\* when the run began, in ascending order of path, and the two counters
\* add up to the number of candidates.
C9_EveryCandidateOnce ==
  run.pc \in {"done", "raised"} =>
    /\ run.invoked = Sorted(photo_files(before, cfg.directory, cfg.recursive))
    /\ run.successful + run.failed = Len(run.invoked)

\* C10: a second identical in-place run in move mode leaves every file
\* where the first run put it.
C10_SecondRunChangesNothing ==
  (pass = 2 /\ run.pc = "done" /\ cfg.output_dir = None /\ ~cfg.copy) =>
    run.fs = before

ValueOf(v) ==
  IF v = DateA
  THEN << [year |-> 2023, month |-> 6, day |-> 15, hour |-> 14, minute |-> 30, second |-> 0] >>
  ELSE IF v = DateLeap
  THEN << [year |-> 2024, month |-> 2, day |-> 29, hour |-> 23, minute |-> 59, second |-> 59] >>
  ELSE None

\* C8: get_exif_date gives the parsed value of DateTime when present, else
\* of DateTimeOriginal, else of DateTimeDigitized; None when that value is
\* malformed, whatever the later fields hold; None when no field is
\* present, when there is no metadata or when the image does not open.
C8_FirstPresentField ==
  Len(date) = 1 =>
    date[1] = (IF ~image.opens \/ ~image.has_exif THEN None
               ELSE IF 306 \in DOMAIN image.exif_data THEN ValueOf(image.exif_data[306])
               ELSE IF 36867 \in DOMAIN image.exif_data THEN ValueOf(image.exif_data[36867])
               ELSE IF 36868 \in DOMAIN image.exif_data THEN ValueOf(image.exif_data[36868])
               ELSE None)

\* C8's case: a malformed DateTime before a well-formed DateTimeOriginal.
C8_Witness ==
  /\ Len(date) = 1
  /\ date[1] = None
  /\ image.has_exif
  /\ {306, 36867} \subseteq DOMAIN image.exif_data
  /\ image.exif_data[306] = DateDashed
  /\ image.exif_data[36867] = DateA

=============================================================================
